---- MODULE Spec2Model ----
(***************************************************************************)
(* Booking backend (src/main.py): the POST /reservations handler           *)
(* create_reservation and the four GET handlers, run by concurrent request *)
(* workers against one shared reservation table.  Every storage statement  *)
(* of a handler is one atomic step; the steps of different requests        *)
(* interleave freely, because the handlers take no lock and read with a    *)
(* plain SELECT.                                                           *)
(*   Spec     POST /reservations under concurrent requests                 *)
(*   SpecSeq  POST /reservations, one request inside the handler at a time *)
(*   SpecApi  every handler under concurrent requests, with a moving clock *)
(*   SpecLive every handler, each request run to completion                *)
(***************************************************************************)
EXTENDS Integers, FiniteSets, Sequences, TLC

\* ---------------------------------------------------------------- bounds
\* requests accepted by the server in one behaviour of Spec
MaxReq == 2
\* requests accepted by the server in one behaviour of SpecSeq
MaxSeqReq == 3
\* last reading of the clock
MaxClock == 1
\* requests accepted by the server in one behaviour of SpecApi
MaxApiReq == 3
\* requests accepted by the server in one behaviour of SpecLive
MaxLiveReq == 2

\* ---------------------------------------------------------------- inputs
\* request workers (threads of the server's pool)
Procs == {"w1", "w2"}
Facilities == {"F1", "F2"}
Companies == {"C1"}
Attendees == {1}

\* datetimes are seconds since midnight
At(h, m) == h * 3600 + m * 60
\* 10:00, 10:15, 10:30, 10:45: boundaries on the 5-minute grid
GridTimes == {At(10, 0), At(10, 15), At(10, 30), At(10, 45)}
\* 10:07:00, a minute off the 5-minute grid
OffGridTimes == {At(10, 7)}
Times == GridTimes \cup OffGridTimes

\* datetime.minute
Minute(t) == (t \div 60) % 60

\* ReservationCreateSchema: the body of POST /reservations
ReservationCreateSchema ==
    [company_id : Companies, facility_id : Facilities,
     start_time : Times, end_time : Times, attendees : Attendees]

\* calendar days are numbered; a datetime on day n is n days of seconds
\* plus its time of day
Dates == {0, 1}
DaySeconds == 24 * 3600
OnDay(n, t) == n * DaySeconds + t

\* request bodies sent to the whole API: a plain booking, the same window
\* on the next day and on the other facility, a window starting at
\* 10:30:30, a booking for no attendees, and a window out of order
Body(f, s, e, a) ==
    [company_id |-> "C1", facility_id |-> f, start_time |-> s, end_time |-> e,
     attendees |-> a]
ApiBodies ==
    {Body("F1", At(10, 0), At(10, 30), 1),
     Body("F1", OnDay(1, At(10, 0)), OnDay(1, At(10, 30)), 1),
     Body("F2", At(10, 0), At(10, 30), 1),
     Body("F1", At(10, 30) + 30, At(10, 45), 1),
     Body("F2", At(10, 30), At(10, 45), 0),
     Body("F1", At(10, 30), At(10, 0), 1)}

\* rows of m_user_companies and m_point0_facilities; no handler writes them
CompanyTable == {[company_id |-> "C1", company_name |-> "Company 1"]}
FacilityTable == {[facility_id |-> f, facility_name |-> f] : f \in Facilities}
\* company ids asked for in GET /companies/{company_id}; C9 has no row
CompanyIds == {"C1", "C9"}

\* GET parameters: the handler, its path or query parameters
NoDate == -1
NoQuery == [handler |-> "", company_id |-> "", facility_id |-> "", date |-> NoDate]

\* the GET requests sent to the API
GetQueries ==
    [handler : {"get_reservations"}, company_id : {""},
     facility_id : Facilities, date : Dates \cup {NoDate}]
    \cup [handler : {"read_company"}, company_id : CompanyIds,
          facility_id : {""}, date : {NoDate}]
    \cup [handler : {"read_companies", "read_facilities"}, company_id : {""},
          facility_id : {""}, date : {NoDate}]

NoData == [company_id |-> "", facility_id |-> "", start_time |-> 0,
           end_time |-> 0, attendees |-> 0]

\* ------------------------------------------------------------- responses
MsgOrder == "start must be before end"
MsgGranularity == "start and end must be on 5-minute marks"
MsgOverlap == "reservation overlapped"
MsgCreated == "Reservation successfully created."
MsgDatabase == "Database error"

NoResp == [status |-> 0, reservation_id |-> "", message |-> ""]
\* variant: a business-rule rejection is answered with a 4xx status
ErrorResponse400(msg) == [status |-> 400, reservation_id |-> "Error", message |-> msg]
ErrorResponse(msg) == [status |-> 200, reservation_id |-> "Error", message |-> msg]
CreatedResponse(id) == [status |-> 200, reservation_id |-> id, message |-> MsgCreated]
MsgNotFound == "User not found"
MsgQuery == "Database query error"
OK200 == [status |-> 200, reservation_id |-> "", message |-> ""]
HTTP404 == [status |-> 404, reservation_id |-> "", message |-> MsgNotFound]
HTTP500Query == [status |-> 500, reservation_id |-> "", message |-> MsgQuery]
HTTP500 == [status |-> 500, reservation_id |-> "", message |-> MsgDatabase]

\* str(uuid.uuid4()): a fresh identifier, never equal to an earlier one
Uuid(n) == "uuid-" \o ToString(n)

\* ----------------------------------------------------------------- state
VARIABLES
    store,      \* committed rows of t_point0_facility_reservations
    pc,         \* position of each worker in get_db / create_reservation
    req,        \* reservation_data of the request a worker is handling
    rid,        \* reservation_id generated by the worker's request
    pending,    \* rows added to the worker's session and not yet committed
    tx,         \* whether the worker's session has a transaction open
    io,         \* storage statements issued by the worker's request
    resp,       \* the response of the worker's request
    nextId,     \* source of fresh uuids
    nreq,       \* requests received so far
    sess,       \* whether the session get_db gave the worker is still open
    now,        \* the clock datetime.now reads
    stamp,      \* created_at as read by the worker's request
    query,      \* path and query parameters of the GET a worker is handling
    body        \* rows returned in the worker's response

vars == <<store, pc, req, rid, pending, tx, io, resp, nextId, nreq,
          sess, now, stamp, query, body>>

\* --------------------------------------------------------- pure functions
\* variant: the ordering test lets start = end through
ValidateWindowStrictOrder(d) ==
    IF d.start_time > d.end_time THEN MsgOrder
    ELSE IF Minute(d.start_time) % 5 # 0 \/ Minute(d.end_time) % 5 # 0
         THEN MsgGranularity
         ELSE ""

\* variant: the granularity test looks at start_time only
ValidateWindowStartOnly(d) ==
    IF d.start_time >= d.end_time THEN MsgOrder
    ELSE IF Minute(d.start_time) % 5 # 0
         THEN MsgGranularity
         ELSE ""

\* variant: the granularity test comes before the ordering test
ValidateWindowGranularityFirst(d) ==
    IF Minute(d.start_time) % 5 # 0 \/ Minute(d.end_time) % 5 # 0
    THEN MsgGranularity
    ELSE IF d.start_time >= d.end_time THEN MsgOrder
         ELSE ""

\* lines 217-226: the time-window validation; "" when the window passes
ValidateWindow(d) ==
    IF d.start_time >= d.end_time THEN MsgOrder
    ELSE IF Minute(d.start_time) % 5 # 0 \/ Minute(d.end_time) % 5 # 0
         THEN MsgGranularity
         ELSE ""

\* variant: closed intervals, touching windows conflict
OverlapsClosed(r, d) == r.start_time <= d.end_time /\ r.end_time >= d.start_time

\* variant: only a row strictly around the candidate conflicts
OverlapsAround(r, d) == r.start_time < d.start_time /\ r.end_time > d.end_time

\* lines 231-232: the filter of the overlap query on one row
Overlaps(r, d) == r.start_time < d.end_time /\ r.end_time > d.start_time

\* variant: the query is not filtered by facility
OverlappingAnyFacility(rows, d) == {r \in rows : Overlaps(r, d)}

\* lines 227-235: the overlap query against the committed rows
OverlappingReservations(rows, d) ==
    {r \in rows : r.facility_id = d.facility_id /\ Overlaps(r, d)}

\* variant: the date parameter is ignored
ReservationsOfAnyDay(rows, f, dt) == {r \in rows : r.facility_id = f}

\* lines 194-202: the rows of a facility, of one day when a date is given
ReservationsOf(rows, f, dt) ==
    {r \in rows :
        /\ r.facility_id = f
        /\ dt # NoDate =>
              /\ r.start_time >= OnDay(dt, 0)
              /\ r.start_time <= OnDay(dt, DaySeconds - 1)}

\* lines 248-257: the new row
NewReservation(id, d, c, u) ==
    [reservation_id |-> id, company_id |-> d.company_id,
     facility_id |-> d.facility_id, start_time |-> d.start_time,
     end_time |-> d.end_time, attendees |-> d.attendees,
     created_at |-> c, updated_at |-> u]

\* ------------------------------------------------------------------ Init
Init ==
    /\ store = {}
    /\ pc = [p \in Procs |-> "idle"]
    /\ req = [p \in Procs |-> NoData]
    /\ rid = [p \in Procs |-> ""]
    /\ pending = [p \in Procs |-> {}]
    /\ tx = [p \in Procs |-> FALSE]
    /\ io = [p \in Procs |-> 0]
    /\ resp = [p \in Procs |-> NoResp]
    /\ nextId = 1
    /\ nreq = 0
    /\ sess = [p \in Procs |-> FALSE]
    /\ now = 0
    /\ stamp = [p \in Procs |-> 0]
    /\ query = [p \in Procs |-> NoQuery]
    /\ body = [p \in Procs |-> {}]

\* --------------------------------------------------------------- actions
\* get_db yields a new session and the handler is entered with the body
Enter(p, d) ==
    /\ pc[p] = "idle"
    /\ pc' = [pc EXCEPT ![p] = "received"]
    /\ req' = [req EXCEPT ![p] = d]
    /\ nreq' = nreq + 1
    /\ sess' = [sess EXCEPT ![p] = TRUE]
    /\ UNCHANGED <<store, rid, pending, tx, io, resp, nextId, now, stamp, query, body>>

\* a request arrives at an idle worker, whatever the other workers are doing
Receive(p, d) ==
    /\ nreq < MaxReq
    /\ Enter(p, d)

\* a request arrives while no other request is inside the handler
ReceiveSeq(p, d) ==
    /\ nreq < MaxSeqReq
    /\ \A q \in Procs \ {p} : pc[q] \in {"idle", "responded"}
    /\ Enter(p, d)

\* variant: the session has run a statement before the window is validated
ValidateAfterStatement(p) ==
    /\ pc[p] = "received"
    /\ tx' = [tx EXCEPT ![p] = TRUE]
    /\ io' = [io EXCEPT ![p] = @ + 1]
    /\ IF ValidateWindow(req[p]) # ""
       THEN /\ resp' = [resp EXCEPT ![p] = ErrorResponse(ValidateWindow(req[p]))]
            /\ pc' = [pc EXCEPT ![p] = "responded"]
       ELSE /\ pc' = [pc EXCEPT ![p] = "validated"]
            /\ UNCHANGED resp
    /\ UNCHANGED <<store, req, rid, pending, nextId, nreq, sess, now, stamp, query, body>>

\* lines 217-226: reject a malformed window, or go on to the overlap query
Validate(p) ==
    /\ pc[p] = "received"
    /\ IF ValidateWindow(req[p]) # ""
       THEN /\ resp' = [resp EXCEPT ![p] = ErrorResponse(ValidateWindow(req[p]))]
            /\ pc' = [pc EXCEPT ![p] = "responded"]
       ELSE /\ pc' = [pc EXCEPT ![p] = "validated"]
            /\ UNCHANGED resp
    /\ UNCHANGED <<store, req, rid, pending, tx, io, nextId, nreq, sess, now, stamp, query, body>>

\* lines 227-242: the overlap query returns; reject when it found a row.
\* It is the session's first statement, a non-locking read of the rows
\* committed so far; rows other sessions have added but not committed are
\* not seen.
Query(p) ==
    /\ pc[p] = "validated"
    /\ tx' = [tx EXCEPT ![p] = TRUE]
    /\ io' = [io EXCEPT ![p] = @ + 1]
    /\ IF OverlappingReservations(store, req[p]) # {}
       THEN /\ resp' = [resp EXCEPT ![p] = ErrorResponse(MsgOverlap)]
            /\ pc' = [pc EXCEPT ![p] = "responded"]
       ELSE /\ pc' = [pc EXCEPT ![p] = "checked"]
            /\ UNCHANGED resp
    /\ UNCHANGED <<store, req, rid, pending, nextId, nreq, sess, now, stamp, query, body>>

\* lines 227-235 raise SQLAlchemyError: control goes to the except clause
QueryFail(p) ==
    /\ pc[p] = "validated"
    /\ tx' = [tx EXCEPT ![p] = TRUE]
    /\ io' = [io EXCEPT ![p] = @ + 1]
    /\ pc' = [pc EXCEPT ![p] = "failed"]
    /\ UNCHANGED <<store, req, rid, pending, resp, nextId, nreq, sess, now, stamp, query, body>>

\* lines 245-255: generate the id and start building the row; created_at
\* is the first reading of the clock
Stamp(p) ==
    /\ pc[p] = "checked"
    /\ rid' = [rid EXCEPT ![p] = Uuid(nextId)]
    /\ nextId' = nextId + 1
    /\ stamp' = [stamp EXCEPT ![p] = now]
    /\ pc' = [pc EXCEPT ![p] = "stamped"]
    /\ UNCHANGED <<store, req, pending, tx, io, resp, nreq, sess, now, query, body>>

\* lines 256-260: updated_at is a second reading of the clock; the row is
\* added to the session
Add(p) ==
    /\ pc[p] = "stamped"
    /\ pending' = [pending EXCEPT
                     ![p] = @ \cup {NewReservation(rid[p], req[p], stamp[p], now)}]
    /\ pc' = [pc EXCEPT ![p] = "added"]
    /\ UNCHANGED <<store, req, rid, tx, io, resp, nextId, nreq, sess, now, stamp,
                   query, body>>

\* the clock moves on
Tick ==
    /\ now < MaxClock
    /\ now' = now + 1
    /\ UNCHANGED <<store, pc, req, rid, pending, tx, io, resp, nextId, nreq,
                   sess, stamp, query, body>>

\* variant: the commit replaces the table by the session's rows
CommitOverwrites(p) ==
    /\ pc[p] = "added"
    /\ store' = pending[p]
    /\ pending' = [pending EXCEPT ![p] = {}]
    /\ tx' = [tx EXCEPT ![p] = FALSE]
    /\ io' = [io EXCEPT ![p] = @ + 1]
    /\ resp' = [resp EXCEPT ![p] = CreatedResponse(rid[p])]
    /\ pc' = [pc EXCEPT ![p] = "responded"]
    /\ UNCHANGED <<req, rid, nextId, nreq, sess, now, stamp, query, body>>

\* lines 261-263: the commit flushes the INSERT and ends the transaction
Commit(p) ==
    /\ pc[p] = "added"
    /\ store' = store \cup pending[p]
    /\ pending' = [pending EXCEPT ![p] = {}]
    /\ tx' = [tx EXCEPT ![p] = FALSE]
    /\ io' = [io EXCEPT ![p] = @ + 1]
    /\ resp' = [resp EXCEPT ![p] = CreatedResponse(rid[p])]
    /\ pc' = [pc EXCEPT ![p] = "responded"]
    /\ UNCHANGED <<req, rid, nextId, nreq, sess, now, stamp, query, body>>

\* line 261 raises SQLAlchemyError: nothing of the transaction is stored
CommitFail(p) ==
    /\ pc[p] = "added"
    /\ io' = [io EXCEPT ![p] = @ + 1]
    /\ pc' = [pc EXCEPT ![p] = "failed"]
    /\ UNCHANGED <<store, req, rid, pending, tx, resp, nextId, nreq, sess, now, stamp, query, body>>

\* variant: the except clause does not roll back
RollbackSkipped(p) ==
    /\ pc[p] = "failed"
    /\ pc' = [pc EXCEPT ![p] = "rolledback"]
    /\ UNCHANGED <<store, req, rid, pending, tx, io, resp, nextId, nreq, sess, now, stamp, query, body>>

\* line 266: db.rollback() discards the session's rows and its transaction
Rollback(p) ==
    /\ pc[p] = "failed"
    /\ pending' = [pending EXCEPT ![p] = {}]
    /\ tx' = [tx EXCEPT ![p] = FALSE]
    /\ pc' = [pc EXCEPT ![p] = "rolledback"]
    /\ UNCHANGED <<store, req, rid, io, resp, nextId, nreq, sess, now, stamp, query, body>>

\* variant: after the rollback the handler runs the overlap query again
RetryAfterRollback(p) ==
    /\ pc[p] = "rolledback"
    /\ pc' = [pc EXCEPT ![p] = "validated"]
    /\ UNCHANGED <<store, req, rid, pending, tx, io, resp, nextId, nreq, sess, now, stamp, query, body>>

\* line 267: raise HTTPException(500)
Raise500(p) ==
    /\ pc[p] = "rolledback"
    /\ resp' = [resp EXCEPT ![p] = HTTP500]
    /\ pc' = [pc EXCEPT ![p] = "responded"]
    /\ UNCHANGED <<store, req, rid, pending, tx, io, nextId, nreq, sess, now, stamp, query, body>>

\* variant: closing the session undoes the row the request had committed
CloseUndoes(p) ==
    /\ pc[p] = "responded"
    /\ store' = {r \in store : r.reservation_id # rid[p]}
    /\ pending' = [pending EXCEPT ![p] = {}]
    /\ tx' = [tx EXCEPT ![p] = FALSE]
    /\ pc' = [pc EXCEPT ![p] = "idle"]
    /\ req' = [req EXCEPT ![p] = NoData]
    /\ rid' = [rid EXCEPT ![p] = ""]
    /\ io' = [io EXCEPT ![p] = 0]
    /\ resp' = [resp EXCEPT ![p] = NoResp]
    /\ sess' = [sess EXCEPT ![p] = FALSE]
    /\ query' = [query EXCEPT ![p] = NoQuery]
    /\ body' = [body EXCEPT ![p] = {}]
    /\ stamp' = [stamp EXCEPT ![p] = 0]
    /\ UNCHANGED <<nextId, nreq, now>>

\* variant: the session is closed on the success path only (no finally)
CloseOnSuccessOnly(p) ==
    /\ pc[p] = "responded"
    /\ pending' = [pending EXCEPT ![p] = {}]
    /\ tx' = [tx EXCEPT ![p] = FALSE]
    /\ pc' = [pc EXCEPT ![p] = "idle"]
    /\ req' = [req EXCEPT ![p] = NoData]
    /\ rid' = [rid EXCEPT ![p] = ""]
    /\ io' = [io EXCEPT ![p] = 0]
    /\ resp' = [resp EXCEPT ![p] = NoResp]
    /\ sess' = [sess EXCEPT ![p] = resp[p].status # 200]
    /\ query' = [query EXCEPT ![p] = NoQuery]
    /\ body' = [body EXCEPT ![p] = {}]
    /\ stamp' = [stamp EXCEPT ![p] = 0]
    /\ UNCHANGED <<store, nextId, nreq, now>>

\* lines 154-156: get_db closes the session; the worker takes the next request
Close(p) ==
    /\ pc[p] = "responded"
    /\ pending' = [pending EXCEPT ![p] = {}]
    /\ tx' = [tx EXCEPT ![p] = FALSE]
    /\ pc' = [pc EXCEPT ![p] = "idle"]
    /\ req' = [req EXCEPT ![p] = NoData]
    /\ rid' = [rid EXCEPT ![p] = ""]
    /\ io' = [io EXCEPT ![p] = 0]
    /\ resp' = [resp EXCEPT ![p] = NoResp]
    /\ sess' = [sess EXCEPT ![p] = FALSE]
    /\ query' = [query EXCEPT ![p] = NoQuery]
    /\ body' = [body EXCEPT ![p] = {}]
    /\ stamp' = [stamp EXCEPT ![p] = 0]
    /\ UNCHANGED <<store, nextId, nreq, now>>

\* ------------------------------------------------------ the GET handlers
\* a body of the whole API arrives at an idle worker
ReceiveApi(p, d) ==
    /\ nreq < MaxApiReq
    /\ Enter(p, d)

\* get_db yields a new session and a GET handler is entered
EnterGet(p, q) ==
    /\ pc[p] = "idle"
    /\ pc' = [pc EXCEPT ![p] = "reading"]
    /\ query' = [query EXCEPT ![p] = q]
    /\ nreq' = nreq + 1
    /\ sess' = [sess EXCEPT ![p] = TRUE]
    /\ UNCHANGED <<store, req, rid, pending, tx, io, resp, nextId, now, stamp, body>>

\* a GET request arrives at an idle worker
ReceiveGet(p, q) ==
    /\ nreq < MaxApiReq
    /\ EnterGet(p, q)

\* the same arrivals, counted against the bound of SpecLive
ReceiveLive(p, d) ==
    /\ nreq < MaxLiveReq
    /\ Enter(p, d)

ReceiveGetLive(p, q) ==
    /\ nreq < MaxLiveReq
    /\ EnterGet(p, q)

\* the response of a GET handler: rows and status
Respond(p, rows, r) ==
    /\ tx' = [tx EXCEPT ![p] = TRUE]
    /\ io' = [io EXCEPT ![p] = @ + 1]
    /\ body' = [body EXCEPT ![p] = rows]
    /\ resp' = [resp EXCEPT ![p] = r]
    /\ pc' = [pc EXCEPT ![p] = "responded"]
    /\ UNCHANGED <<store, req, rid, pending, nextId, nreq, sess, now, stamp, query>>

\* lines 165-168: all companies
ReadCompanies(p) ==
    /\ pc[p] = "reading" /\ query[p].handler = "read_companies"
    /\ Respond(p, CompanyTable, OK200)

\* lines 171-177: one company, or 404
ReadCompany(p) ==
    /\ pc[p] = "reading" /\ query[p].handler = "read_company"
    /\ LET found == {c \in CompanyTable : c.company_id = query[p].company_id}
       IN  IF found = {} THEN Respond(p, {}, HTTP404)
                         ELSE Respond(p, found, OK200)

\* lines 180-183: all facilities
ReadFacilities(p) ==
    /\ pc[p] = "reading" /\ query[p].handler = "read_facilities"
    /\ Respond(p, FacilityTable, OK200)

\* lines 151-153: the query of one of these three handlers raises
\* SQLAlchemyError, which get_db turns into HTTPException(500)
ReadFail(p) ==
    /\ pc[p] = "reading"
    /\ query[p].handler \in {"read_companies", "read_company", "read_facilities"}
    /\ Respond(p, {}, HTTP500)

\* lines 193-203: the reservations of a facility
GetReservations(p) ==
    /\ pc[p] = "reading" /\ query[p].handler = "get_reservations"
    /\ Respond(p, ReservationsOf(store, query[p].facility_id, query[p].date), OK200)

\* lines 205-207: the query raises SQLAlchemyError
GetReservationsFail(p) ==
    /\ pc[p] = "reading" /\ query[p].handler = "get_reservations"
    /\ Respond(p, {}, HTTP500Query)

Next ==
    \E p \in Procs :
        \/ \E d \in ReservationCreateSchema : Receive(p, d)
        \/ Validate(p)
        \/ Query(p)
        \/ QueryFail(p)
        \/ Stamp(p)
        \/ Add(p)
        \/ Commit(p)
        \/ CommitFail(p)
        \/ Rollback(p)
        \/ Raise500(p)
        \/ Close(p)

Spec == Init /\ [][Next]_vars

\* the same server when the requests are processed one at a time
NextSeq ==
    \E p \in Procs :
        \/ \E d \in ReservationCreateSchema : ReceiveSeq(p, d)
        \/ Validate(p)
        \/ Query(p)
        \/ QueryFail(p)
        \/ Stamp(p)
        \/ Add(p)
        \/ Commit(p)
        \/ CommitFail(p)
        \/ Rollback(p)
        \/ Raise500(p)
        \/ Close(p)

SpecSeq == Init /\ [][NextSeq]_vars

\* the whole API: every handler, and the clock
NextApi ==
    \/ Tick
    \/ \E p \in Procs :
        \/ \E d \in ApiBodies : ReceiveApi(p, d)
        \/ \E q \in GetQueries : ReceiveGet(p, q)
        \/ Validate(p)
        \/ Query(p)
        \/ QueryFail(p)
        \/ Stamp(p)
        \/ Add(p)
        \/ Commit(p)
        \/ CommitFail(p)
        \/ Rollback(p)
        \/ Raise500(p)
        \/ ReadCompanies(p)
        \/ ReadCompany(p)
        \/ ReadFacilities(p)
        \/ ReadFail(p)
        \/ GetReservations(p)
        \/ GetReservationsFail(p)
        \/ Close(p)

SpecApi == Init /\ [][NextApi]_vars

\* the steps of the request a worker is handling
Handle(p) ==
    \/ Validate(p) \/ Query(p) \/ QueryFail(p) \/ Stamp(p) \/ Add(p)
    \/ Commit(p) \/ CommitFail(p) \/ Rollback(p) \/ Raise500(p)
    \/ ReadCompanies(p) \/ ReadCompany(p) \/ ReadFacilities(p) \/ ReadFail(p)
    \/ GetReservations(p) \/ GetReservationsFail(p) \/ Close(p)

\* the whole API when every worker goes on with the request it holds: the
\* handlers are straight-line code and each storage call returns or raises
NextLive ==
    \E p \in Procs :
        \/ \E d \in ApiBodies : ReceiveLive(p, d)
        \/ \E q \in GetQueries : ReceiveGetLive(p, q)
        \/ Handle(p)

SpecLive == Init /\ [][NextLive]_vars /\ \A p \in Procs : WF_vars(Handle(p))

\* ------------------------------------------------- vocabulary of the claims
\* the outcomes of a request, read off its response
Rejected(r) == r.status = 200 /\ r.reservation_id = "Error"
Created(r) == r.status = 200 /\ r.reservation_id # "Error"
StorageError(r) == r.status = 500

\* the half-open windows [a.start_time, a.end_time) and [b.start_time,
\* b.end_time) share no instant
Disjoint(a, b) == a.end_time <= b.start_time \/ b.end_time <= a.start_time
SameFacility(a, b) == a.facility_id = b.facility_id
Conflicting(a, b) == SameFacility(a, b) /\ ~Disjoint(a, b)
SameWindow(a, b) == a.start_time = b.start_time /\ a.end_time = b.end_time

FiveMinuteMarks == {5 * k : k \in 0..11}
OnMinuteGrid(d) ==
    /\ ((d.start_time \div 60) % 60) \in FiveMinuteMarks
    /\ ((d.end_time \div 60) % 60) \in FiveMinuteMarks
Ordered(d) == d.start_time < d.end_time

\* the worker's request received its verdict or its error in this step
Answered(p) == pc[p] # "responded" /\ pc'[p] = "responded"
\* the worker's overlap query returned in this step
QueryReturned(p) == pc[p] = "validated" /\ pc'[p] \in {"checked", "responded"}

\* ------------------------------------------------------------------- C1
\* C1: of two workers whose requests ask for overlapping windows on the same
\* facility, at most one is answered with a created reservation.
C1_AtMostOneOfOverlappingPairCommits ==
    \A p, q \in Procs :
        (p # q /\ Created(resp[p]) /\ Created(resp[q]))
            => ~Conflicting(req[p], req[q])

\* ------------------------------------------------------------------- C2
\* C2: when the requests are processed one at a time, any two persisted
\* reservations of one facility are disjoint half-open windows.
C2_PairwiseNonOverlapping ==
    \A r1, r2 \in store :
        (r1 # r2 /\ SameFacility(r1, r2)) => Disjoint(r1, r2)

\* two reservations persisted on one facility, a third request turned away
C2_Witness ==
    /\ \E r1, r2 \in store : r1 # r2 /\ SameFacility(r1, r2)
    /\ \E p \in Procs : resp[p] = ErrorResponse(MsgOverlap)

\* ------------------------------------------------------------------- C3
\* C3: when the overlap query of a well-formed request returns while some
\* persisted reservation of its facility starts before the candidate's end
\* and ends after the candidate's start, the request is answered with the
\* overlap rejection and nothing is stored.
C3_OverlapIsRejected ==
    [][\A p \in Procs :
        (/\ QueryReturned(p)
         /\ \E r \in store :
               /\ r.facility_id = req[p].facility_id
               /\ r.start_time < req[p].end_time
               /\ r.end_time > req[p].start_time)
        => /\ resp'[p] = ErrorResponse(MsgOverlap)
           /\ pc'[p] = "responded"
           /\ store' = store]_vars

\* [10:00,10:30) is persisted on F1 and the same window on F1 was rejected
C3_Witness ==
    \E p \in Procs : \E r \in store :
        /\ resp[p] = ErrorResponse(MsgOverlap)
        /\ SameFacility(r, req[p]) /\ SameWindow(r, req[p])
        /\ r.start_time = At(10, 0) /\ r.end_time = At(10, 30)

\* ------------------------------------------------------------------- C4
\* C4: a well-formed request whose window is disjoint from every persisted
\* reservation of its facility when its overlap query returns (touching
\* windows included) passes the check, and unless the commit fails it is
\* answered as created with its row persisted.
C4_TouchingIsAccepted ==
    [][\A p \in Procs :
        /\ (QueryReturned(p)
            /\ \A r \in store : SameFacility(r, req[p]) => Disjoint(r, req[p]))
           => pc'[p] = "checked"
        /\ (pc[p] \in {"checked", "stamped", "added"} /\ Answered(p))
           => /\ Created(resp'[p])
              /\ \E r \in store' :
                    /\ r.reservation_id = resp'[p].reservation_id
                    /\ SameFacility(r, req[p]) /\ SameWindow(r, req[p])]_vars

\* [10:00,10:30) and [10:30,10:45) are both persisted on one facility, the
\* second answered as created
C4_Witness ==
    \E p \in Procs : \E r1, r2 \in store :
        /\ SameFacility(r1, r2)
        /\ r1.start_time = At(10, 0) /\ r1.end_time = At(10, 30)
        /\ r2.start_time = At(10, 30) /\ r2.end_time = At(10, 45)
        /\ Created(resp[p]) /\ resp[p].reservation_id = r2.reservation_id

\* ------------------------------------------------------------------- C5
\* C5: a request with a boundary off the 5-minute marks never gets past the
\* validation: it issues no storage statement, generates no id, adds no row,
\* its answer is a rejection, and no persisted row is off the marks.
C5_OffGridIsRejected ==
    /\ \A p \in Procs :
          (pc[p] # "idle" /\ ~OnMinuteGrid(req[p]))
          => /\ pc[p] \in {"received", "responded"}
             /\ pc[p] = "responded" => Rejected(resp[p])
             /\ io[p] = 0 /\ rid[p] = "" /\ pending[p] = {}
    /\ \A r \in store : OnMinuteGrid(r)

\* an off-grid request was rejected while a persisted reservation of its
\* facility overlaps its window
C5_Witness ==
    \E p \in Procs : \E r \in store :
        /\ pc[p] = "responded" /\ Rejected(resp[p])
        /\ Ordered(req[p]) /\ ~OnMinuteGrid(req[p])
        /\ Conflicting(r, req[p])

\* ------------------------------------------------------------------- C6
\* C6: a request whose start is not before its end never gets past the
\* validation: it issues no storage statement, generates no id, adds no row,
\* its answer is a rejection, and every persisted row starts before it ends.
C6_UnorderedIsRejected ==
    /\ \A p \in Procs :
          (pc[p] # "idle" /\ ~Ordered(req[p]))
          => /\ pc[p] \in {"received", "responded"}
             /\ pc[p] = "responded" => Rejected(resp[p])
             /\ io[p] = 0 /\ rid[p] = "" /\ pending[p] = {}
    /\ \A r \in store : Ordered(r)

\* a request with start = end and one with start > end were both rejected
C6_Witness ==
    \E p, q \in Procs :
        /\ pc[p] = "responded" /\ Rejected(resp[p])
        /\ req[p].start_time = req[p].end_time
        /\ pc[q] = "responded" /\ Rejected(resp[q])
        /\ req[q].start_time > req[q].end_time

\* ------------------------------------------------------------------- C7
\* C7: an overlap rejection is always owed to a persisted reservation of the
\* request's own facility, and the overlap query of a request is never
\* blocked, whatever the other workers hold.
C7_FacilityScoped ==
    \A p \in Procs :
        /\ resp[p] = ErrorResponse(MsgOverlap)
           => \E r \in store : Conflicting(r, req[p])
        /\ pc[p] = "validated" => ENABLED (Query(p) \/ QueryFail(p))

\* the same window was requested on F1 and on F2 and both were created
C7_Witness ==
    \E p, q \in Procs :
        /\ req[p].facility_id = "F1" /\ req[q].facility_id = "F2"
        /\ SameWindow(req[p], req[q])
        /\ Created(resp[p]) /\ Created(resp[q])
        /\ \E r1, r2 \in store :
              /\ r1.reservation_id = resp[p].reservation_id
              /\ r2.reservation_id = resp[q].reservation_id

\* ------------------------------------------------------------------- C8
\* C8: the step that answers a request with a business-rule rejection
\* leaves the persisted set as it was, and an ordering or granularity
\* rejection is answered before any storage statement or transaction.
C8_RejectionLeavesStore ==
    [][\A p \in Procs :
        (Answered(p) /\ Rejected(resp'[p]))
        => /\ store' = store
           /\ pending'[p] = {}
           /\ resp'[p].message \in {MsgOrder, MsgGranularity}
              => io'[p] = 0 /\ ~tx'[p]]_vars

\* all three rejections were given and the persisted row is still there
C8_Witness ==
    /\ store # {}
    /\ \E p, q \in Procs :
          /\ resp[p] = ErrorResponse(MsgOverlap)
          /\ resp[q].message \in {MsgOrder, MsgGranularity}

\* ------------------------------------------------------------------- C9
\* C9: a request answered with the storage error (500) has had its
\* transaction rolled back, holds no unflushed row, and its attempted row
\* is not persisted; a request whose statement failed never has its row
\* persisted either.
C9_FailureRollsBack ==
    \A p \in Procs :
        /\ StorageError(resp[p])
           => /\ resp[p] = HTTP500
              /\ ~tx[p] /\ pending[p] = {}
              /\ \A r \in store : r.reservation_id # rid[p]
        /\ pc[p] \in {"failed", "rolledback"}
           => \A r \in store : r.reservation_id # rid[p]
        /\ (\E r \in store : r.reservation_id = rid[p])
           => Created(resp[p])

\* a commit failed: the id was generated, the answer is 500
C9_Witness ==
    \E p \in Procs : resp[p] = HTTP500 /\ rid[p] # "" /\ io[p] = 2

\* ------------------------------------------------------------------ C10
\* C10: once a request has been rejected, an identical request submitted
\* afterwards is, at the step that gives its verdict (the validation
\* rejecting it, or its overlap query returning), rejected with the same
\* reason.
C10_RejectionIsRepeated ==
    [][\A p, q \in Procs :
        (/\ p # q
         /\ pc[p] = "responded" /\ Rejected(resp[p])
         /\ req[q] = req[p]
         /\ \/ pc[q] = "received" /\ pc'[q] = "responded"
            \/ QueryReturned(q))
        => pc'[q] = "responded" /\ resp'[q] = resp[p]]_vars

\* an overlap rejection was repeated for the identical request
C10_Witness ==
    \E p, q \in Procs :
        /\ p # q /\ req[p] = req[q]
        /\ resp[p] = ErrorResponse(MsgOverlap)
        /\ resp[q] = ErrorResponse(MsgOverlap)

\* ------------------------------------------------------------------ C11
\* C11: a request answered without a commit and without a storage failure
\* gets status 200 with reservation_id "Error"; a request answered by its
\* commit gets status 200 with the id of the row just stored, which is not
\* "Error"; status 500 is given only after a storage statement of the
\* request failed and was rolled back.
C11_ResponseShapes ==
    [][\A p \in Procs :
        /\ (Answered(p) /\ pc[p] \in {"received", "validated"})
           => /\ resp'[p].status = 200 /\ resp'[p].reservation_id = "Error"
              /\ resp'[p].message \in {MsgOrder, MsgGranularity, MsgOverlap}
        /\ (Answered(p) /\ pc[p] = "added")
           => /\ resp'[p].status = 200 /\ resp'[p].reservation_id # "Error"
              /\ \E r \in store' \ store :
                    r.reservation_id = resp'[p].reservation_id
        /\ (Answered(p) /\ resp'[p].status # 200)
           => resp'[p].status = 500 /\ pc[p] = "rolledback"
        /\ (pc[p] # "rolledback" /\ pc'[p] = "rolledback") => pc[p] = "failed"
        /\ (pc[p] # "failed" /\ pc'[p] = "failed")
           => pc[p] \in {"validated", "added"} /\ io'[p] = io[p] + 1]_vars

\* one request was answered 500 after a failure, another 200 with "Error"
C11_Witness ==
    \E p, q \in Procs :
        /\ pc[p] = "responded" /\ resp[p].status = 500 /\ io[p] > 0
        /\ pc[q] = "responded" /\ resp[q].status = 200
        /\ resp[q].reservation_id = "Error"

\* ------------------------------------------------------------------ C14
\* C14: a request moves received -> validated -> checked -> added ->
\* responded, or leaves that path into a rejection or into failed ->
\* rolledback -> responded; once responded it only ends (no retry: every
\* entry is a new request).  The table changes only by the commit of a
\* request that is past validation and the overlap check, by exactly the
\* one row that request generated.
C14_RequestStateMachine ==
    [][/\ \A p \in Procs :
            /\ pc'[p] # pc[p] =>
                 <<pc[p], pc'[p]>> \in
                    {<<"idle", "received">>, <<"received", "validated">>,
                     <<"received", "responded">>, <<"validated", "checked">>,
                     <<"validated", "responded">>, <<"validated", "failed">>,
                     <<"checked", "stamped">>, <<"stamped", "added">>,
                     <<"added", "responded">>,
                     <<"added", "failed">>, <<"failed", "rolledback">>,
                     <<"rolledback", "responded">>, <<"responded", "idle">>}
            /\ pc'[p] = "received" /\ pc[p] # "received" => nreq' = nreq + 1
            /\ rid'[p] # rid[p] /\ rid'[p] # "" =>
                 pc[p] = "checked" /\ rid[p] = ""
       /\ store' # store =>
            \E p \in Procs :
               /\ pc[p] = "added" /\ pc'[p] = "responded"
               /\ Ordered(req[p]) /\ OnMinuteGrid(req[p])
               /\ \E r \in store' \ store :
                     /\ store' = store \cup {r}
                     /\ r.reservation_id = rid[p]
                     /\ SameFacility(r, req[p]) /\ SameWindow(r, req[p])
               /\ \A r \in store : r.reservation_id # rid[p]]_vars

\* one request ended committed, another ended errored after a rollback
C14_Witness ==
    \E p, q \in Procs :
        /\ pc[p] = "responded" /\ Created(resp[p])
        /\ \E r \in store : r.reservation_id = rid[p]
        /\ pc[q] = "responded" /\ StorageError(resp[q])

\* ------------------------------------------------------------------ C19
\* C19: an answered request whose start is not before its end carries the
\* ordering reason, also when a boundary is off the 5-minute marks or a
\* persisted row overlaps it; an answered request in order with a boundary
\* off the marks carries the granularity reason, never the overlap reason.
C19_ValidationOrder ==
    \A p \in Procs :
        pc[p] = "responded" =>
            /\ ~Ordered(req[p])
               => resp[p] = [status |-> 200, reservation_id |-> "Error",
                             message |-> MsgOrder]
            /\ Ordered(req[p]) /\ ~OnMinuteGrid(req[p])
               => resp[p] = [status |-> 200, reservation_id |-> "Error",
                             message |-> MsgGranularity]

\* a request out of order, off the marks and overlapping a persisted row of
\* its facility was answered with the ordering reason
C19_Witness ==
    \E p \in Procs : \E r \in store :
        /\ pc[p] = "responded" /\ resp[p].message = MsgOrder
        /\ ~Ordered(req[p]) /\ ~OnMinuteGrid(req[p])
        /\ r.facility_id = req[p].facility_id
        /\ r.start_time < req[p].end_time /\ r.end_time > req[p].start_time

\* ------------------------------------------------------------------ C12
\* C12: a worker that holds a session eventually holds none, whichever way
\* its request ends, and a worker between requests holds no session.
C12_SessionReleased ==
    /\ \A p \in Procs : sess[p] ~> ~sess[p]
    /\ [](\A p \in Procs : pc[p] = "idle" => ~sess[p])

\* one request ended and released its session while another, answered 404,
\* still holds its own
C12_Witness ==
    \E p, q \in Procs :
        /\ pc[p] = "responded" /\ resp[p].status = 404 /\ sess[p]
        /\ pc[q] = "idle" /\ ~sess[q] /\ nreq >= 2

\* ------------------------------------------------------------------ C13
\* C13: the step in which get_reservations answers 200 returns exactly the
\* persisted rows of the facility asked for, and when a date is given only
\* those whose start_time falls on that calendar day; no step of a worker
\* serving get_reservations changes the table.
C13_ListingIsExact ==
    [][\A p \in Procs :
        (pc[p] = "reading" /\ query[p].handler = "get_reservations"
            /\ pc'[p] # "reading")
        => /\ store' = store
           /\ resp'[p].status = 200
              => body'[p] =
                   {r \in store :
                      /\ r.facility_id = query[p].facility_id
                      /\ query[p].date \in Dates
                         => r.start_time \div 86400 = query[p].date}]_vars

\* F1 is booked on two days; the listing of F1 for the first day holds one
\* row, and that row starts on the first day
C13_Witness ==
    \E p \in Procs :
        /\ pc[p] = "responded" /\ resp[p].status = 200
        /\ query[p].handler = "get_reservations"
        /\ query[p].facility_id = "F1" /\ query[p].date = 0
        /\ \E r1, r2 \in store :
              /\ r1.facility_id = "F1" /\ r2.facility_id = "F1"
              /\ r1.start_time < 86400 /\ r2.start_time >= 86400
              /\ body[p] = {r1}

\* ------------------------------------------------------------------ C15
\* C15: no step of any handler removes or alters a persisted row: every row
\* of the table is in the table after the step, field for field.
C15_RowsAreKept ==
    [][\A r \in store : r \in store']_vars

\* a row was committed, then the reservations and the facilities were read
C15_Witness ==
    \E p, q \in Procs :
        /\ store # {}
        /\ pc[p] = "responded" /\ query[p].handler = "get_reservations"
        /\ body[p] # {}
        /\ pc[q] = "responded" /\ query[q].handler = "read_facilities"

\* ------------------------------------------------------------------ C16
\* C16: every persisted row has created_at equal to updated_at.
C16_SingleTimestamp ==
    \A r \in store : r.created_at = r.updated_at

\* ------------------------------------------------------------------ C17
\* C17: every persisted row has a positive number of attendees.
C17_AttendeesPositive ==
    \A r \in store : r.attendees > 0

\* ------------------------------------------------------------------ C18
\* C18: every persisted window starts before it ends and both of its
\* boundaries are whole multiples of five minutes, seconds included.
C18_WindowOnGrid ==
    \A r \in store :
        /\ r.start_time < r.end_time
        /\ r.start_time % 300 = 0
        /\ r.end_time % 300 = 0

====
